---- MODULE Spec2Model ----
(***************************************************************************)
(* State-machine model of usbserial-xbee.cpp: the payload packer           *)
(* (setSendDataFromROSBus), the byte-stuffing frame encoder and the        *)
(* fixed-rate transmission loop of main(), with the asynchronous signal    *)
(* handler that sets errorFlag.                                            *)
(*                                                                         *)
(* Every write(fd, ., 1) of main() is one step of the model, so that the   *)
(* signal handler can run between any two byte writes.                     *)
(***************************************************************************)
EXTENDS Integers, Sequences, FiniteSets

(***************************************************************************)
(* Program constants.                                                      *)
(***************************************************************************)
HEAD_BYTE == 125

ESCAPE_BYTE == 126

ESCAPE_MASK == 32

HZ == 120

MAX_DATA_TYPE == 3

(***************************************************************************)
(* Bounds of the model.                                                    *)
(***************************************************************************)
\* Largest number of loop iterations (ticks) explored; bounded runs take
\* their loop_length from 1..MaxTicks, unbounded runs are cut off there.
MaxTicks == 2

(***************************************************************************)
(* Bit arithmetic on non-negative integers, as C computes it on unsigned   *)
(* operands.                                                               *)
(***************************************************************************)
RECURSIVE BitOr(_, _)
BitOr(a, b) ==
  IF a = 0 THEN b
  ELSE IF b = 0 THEN a
  ELSE (IF a % 2 = 1 \/ b % 2 = 1 THEN 1 ELSE 0) + 2 * BitOr(a \div 2, b \div 2)

RECURSIVE BitAnd(_, _)
BitAnd(a, b) ==
  IF a = 0 \/ b = 0 THEN 0
  ELSE (IF a % 2 = 1 /\ b % 2 = 1 THEN 1 ELSE 0) + 2 * BitAnd(a \div 2, b \div 2)

RECURSIVE BitXor(_, _)
BitXor(a, b) ==
  IF a = 0 THEN b
  ELSE IF b = 0 THEN a
  ELSE (IF a % 2 # b % 2 THEN 1 ELSE 0) + 2 * BitXor(a \div 2, b \div 2)

RECURSIVE Pow2(_)
Pow2(n) == IF n = 0 THEN 1 ELSE 2 * Pow2(n - 1)

Shl(a, n) == a * Pow2(n)

Shr(a, n) == a \div Pow2(n)

\* Assignment of an int expression to a uint8_t.
U8(v) == v % 256

(***************************************************************************)
(* setSendDataFromROSBus: the bytes pushed on the buffer for one datatype. *)
(***************************************************************************)
\* PackVelocity with the mask of line 207 one bit short.
PackVelocityShortMask(dt, x, y, th) ==
  << U8(BitOr(Shl(BitAnd(dt, 7), 5), Shr(x, 7))),
     U8(BitOr(Shl(BitAnd(x, 63), 1), Shr(y, 11))),
     U8(BitAnd(Shr(y, 3), 255)),
     U8(BitOr(Shl(BitAnd(y, 63), 5), Shr(th, 8))),
     U8(BitAnd(th, 255)) >>

PackVelocity(dt, x, y, th) ==
  << U8(BitOr(Shl(BitAnd(dt, 7), 5), Shr(x, 7))),
     U8(BitOr(Shl(BitAnd(x, 127), 1), Shr(y, 11))),
     U8(BitAnd(Shr(y, 3), 255)),
     U8(BitOr(Shl(BitAnd(y, 63), 5), Shr(th, 8))),
     U8(BitAnd(th, 255)) >>

PackCalibration(dt, calib) ==
  << U8(BitOr(Shl(BitAnd(dt, 7), 5), Shr(calib, 8))),
     U8(BitAnd(calib, 255)) >>

PackKicker(dt, cmd) ==
  << U8(BitOr(Shl(BitAnd(dt, 7), 5), cmd)) >>

setSendDataFromROSBus(dt, buf, x, y, th, calib, cmd) ==
  CASE dt = 0 -> buf \o PackVelocity(dt, x, y, th)
    [] dt = 1 -> buf \o PackCalibration(dt, calib)
    [] dt = 2 -> buf \o PackKicker(dt, cmd)
    [] OTHER -> buf

\* Collides taking every byte from 0x5D up for a colliding one.
CollidesWide(b) == b >= HEAD_BYTE - ESCAPE_MASK

\* The test of lines 333 and 346.
Collides(b) == b = HEAD_BYTE \/ b = ESCAPE_BYTE

(***************************************************************************)
(* State.                                                                  *)
(***************************************************************************)
VARIABLES
  pc,                 \* position of main()
  errorFlag,          \* volatile sig_atomic_t errorFlag
  loop_length,        \* int loop_length
  loop_count,         \* int loop_count
  loop_count_enable,  \* bool loop_count_enable
  hz,                 \* int hz (main)
  microsecond,        \* const int microsecond (main)
  fd,                 \* int fd (main)
  i,                  \* the for loop's index, the datatype being sent
  x_vector, y_vector, th_vector, calib_data, command,
  send_buffer,        \* vu8 send_buffer
  itr,                \* position of the iterator in send_buffer (1-based)
  checksum,           \* int checksum
  u8_checksum,        \* uint8_t u8_checksum
  tv_start, tv_end,   \* struct timeval, as <<tv_sec, tv_usec>>
  looptime,           \* int looptime
  slept,              \* argument of the last usleep of a tick, -1 if none
  wire,               \* the bytes written to fd so far, each with the write
                      \* that produced it (k) and its value before escaping (o)
  reachedMax,         \* "loopcount reach max" was printed
  diag,               \* "Exit with signal error" was printed to stderr
  exitStatus,         \* value returned by main, -1 while it runs
  args,               \* argc and the atoi values of argv[1], argv[2]
  writeErrors,        \* history: number of write() calls that returned -1
  packed,             \* history: send_buffer as setSendDataFromROSBus left it
  sig,                \* history: where main was when errorFlag was first set
  begunAfter          \* history: ticks begun after errorFlag was set

vars ==
  << pc, errorFlag, loop_length, loop_count, loop_count_enable, hz,
     microsecond, fd, i, x_vector, y_vector, th_vector, calib_data, command,
     send_buffer, itr, checksum, u8_checksum, tv_start, tv_end, looptime,
     slept, wire, reachedMax, diag, exitStatus, args, writeErrors, packed, sig,
     begunAfter >>

cfgVars == << loop_length, loop_count_enable, hz, microsecond, fd >>

fieldVars == << x_vector, y_vector, th_vector, calib_data, command >>

timeVars == << tv_start, tv_end, looptime, slept >>

outVars == << reachedMax, diag, exitStatus >>

histVars == << sig, begunAfter >>

NoSig == [passed |-> -1, midFrame |-> FALSE]

\* The command line before main reads it.
NoArgs == [argc |-> 0, rate |-> 0, count |-> 0]

Init ==
  /\ pc = "start"
  /\ errorFlag = 0
  /\ loop_length = 0
  /\ loop_count = 0
  /\ loop_count_enable = FALSE
  /\ hz = 0
  /\ microsecond = 0
  /\ fd = -1
  /\ i = 0
  /\ x_vector = 0
  /\ y_vector = 0
  /\ th_vector = 0
  /\ calib_data = 0
  /\ command = 0
  /\ send_buffer = << >>
  /\ itr = 1
  /\ checksum = 0
  /\ u8_checksum = 0
  /\ tv_start = << 0, 0 >>
  /\ tv_end = << 0, 0 >>
  /\ looptime = 0
  /\ slept = -1
  /\ wire = << >>
  /\ reachedMax = FALSE
  /\ diag = FALSE
  /\ exitStatus = -1
  /\ args = NoArgs
  /\ writeErrors = 0
  /\ packed = << >>
  /\ sig = NoSig
  /\ begunAfter = 0

(***************************************************************************)
(* The positions of main() inside the while loop, and the two scheduler    *)
(* states derived from them.                                               *)
(***************************************************************************)
LoopPcs == {"while", "tick", "for", "head", "payload", "byte", "sumbyte", "count"}

\* Header written, checksum byte not yet written.
MidFramePcs == {"payload", "byte", "sumbyte"}

Running == pc \in LoopPcs

Stopped == pc \in {"report", "done"}

\* Number of evaluations of the while condition that entered the loop body.
TestsPassed == IF pc \in LoopPcs \ {"while"} THEN loop_count + 1 ELSE loop_count

(***************************************************************************)
(* setParameterFromCommandLine: argc and the atoi values of argv[1] and    *)
(* argv[2] give hz, loop_length and loop_count_enable.                     *)
(***************************************************************************)
\* ParamHz with 100000 accepted as a rate.
ParamHzInclusive(argc, rate) ==
  IF argc >= 2
    THEN (IF rate <= 0 \/ 100000 < rate THEN HZ ELSE rate)
    ELSE HZ

ParamHz(argc, rate) ==
  IF argc >= 2
    THEN (IF rate <= 0 \/ 100000 <= rate THEN HZ ELSE rate)
    ELSE HZ

ParamLoopLen(argc, rate, count) ==
  IF argc >= 3
    THEN (IF count <= 0 THEN ParamHz(argc, rate) ELSE count)
    ELSE ParamHz(argc, rate)

ParamEnable(argc, count) ==
  IF argc >= 3 THEN ~(count <= 0) ELSE FALSE

\* (int)(1000000.0f/hz): for 0 < hz < 100000 the float quotient truncates to
\* the integer quotient.
Microsecond(h) == 1000000 \div h

\* write(fd, &b, 1): the byte reaches the device when fd is an open
\* descriptor; main ignores the return value.
Write(w, b, k, o) ==
  IF fd >= 0 THEN Append(w, [b |-> b, k |-> k, o |-> o]) ELSE w

\* 1 when write(fd, ., 1) returns -1 (fd is not an open descriptor).
WriteFailed == IF fd >= 0 THEN 0 ELSE 1

(***************************************************************************)
(* main(), lines 257-296: parameters, open of the device, registration of  *)
(* the signal handler.                                                     *)
(***************************************************************************)
Setup(Args, Fds) ==
  /\ pc = "start"
  /\ \E a \in Args, f \in Fds :
       /\ hz' = ParamHz(a.argc, a.rate)
       /\ loop_length' = ParamLoopLen(a.argc, a.rate, a.count)
       /\ loop_count_enable' = ParamEnable(a.argc, a.count)
       /\ microsecond' = Microsecond(ParamHz(a.argc, a.rate))
       /\ fd' = f
       /\ args' = a
  /\ pc' = "while"
  /\ UNCHANGED << packed, errorFlag, loop_count, i, fieldVars, send_buffer, itr,
                  checksum, u8_checksum, timeVars, wire, writeErrors, outVars, histVars >>

(***************************************************************************)
(* signalHandler, run asynchronously for a signal it is registered for,    *)
(* between any two steps of main() from the registration to the return.    *)
(***************************************************************************)
Registered == {"SIGINT", "SIGQUIT", "SIGILL", "SIGTERM"}

\* HandlerFlag toggling the flag.
HandlerFlagToggle(signo, flag) ==
  IF signo \in {"SIGQUIT", "SIGINT", "SIGKILL", "SIGILL", "SIGTERM"} THEN 1 - flag ELSE flag

HandlerFlag(signo, flag) ==
  IF signo \in {"SIGQUIT", "SIGINT", "SIGKILL", "SIGILL", "SIGTERM"} THEN 1 ELSE flag

signalHandler ==
  /\ pc \notin {"start", "done"}
  /\ \E signo \in Registered : errorFlag' = HandlerFlag(signo, errorFlag)
  /\ sig' = IF errorFlag = 0 /\ errorFlag' = 1 /\ Running
              THEN [passed |-> TestsPassed, midFrame |-> pc \in MidFramePcs]
              ELSE sig
  /\ UNCHANGED << args, packed, pc, cfgVars, loop_count, i, fieldVars, send_buffer, itr,
                  checksum, u8_checksum, timeVars, wire, writeErrors, outVars, begunAfter >>

(***************************************************************************)
(* main(), the while loop.                                                 *)
(***************************************************************************)
\* LoopTest with the flag ignored while a tick bound is set.
LoopTestBoundFirst ==
  /\ pc = "while"
  /\ errorFlag # 0 \/ loop_count < MaxTicks
  /\ pc' = IF errorFlag = 0 \/ loop_count_enable THEN "tick" ELSE "report"
  /\ UNCHANGED << args, packed, errorFlag, cfgVars, loop_count, i, fieldVars, send_buffer,
                  itr, checksum, u8_checksum, timeVars, wire, writeErrors, outVars,
                  histVars >>

\* line 299: while(!errorFlag).  A run without a tick bound is followed for
\* MaxTicks ticks.
LoopTest ==
  /\ pc = "while"
  /\ errorFlag # 0 \/ loop_count < MaxTicks
  /\ pc' = IF errorFlag = 0 THEN "tick" ELSE "report"
  /\ UNCHANGED << args, packed, errorFlag, cfgVars, loop_count, i, fieldVars, send_buffer,
                  itr, checksum, u8_checksum, timeVars, wire, writeErrors, outVars,
                  histVars >>

\* TickStart with the for loop starting at 1.
TickStartSkip(Starts) ==
  /\ pc = "tick"
  /\ \E t \in Starts : tv_start' = t
  /\ i' = 1
  /\ begunAfter' = IF errorFlag # 0 THEN begunAfter + 1 ELSE begunAfter
  /\ pc' = "for"
  /\ UNCHANGED << args, packed, errorFlag, cfgVars, loop_count, fieldVars, send_buffer, itr,
                  checksum, u8_checksum, tv_end, looptime, slept, wire, writeErrors,
                  outVars, sig >>

\* lines 302-304: gettimeofday(&tv_start), i=0.
TickStart(Starts) ==
  /\ pc = "tick"
  /\ \E t \in Starts : tv_start' = t
  /\ i' = 0
  /\ begunAfter' = IF errorFlag # 0 THEN begunAfter + 1 ELSE begunAfter
  /\ pc' = "for"
  /\ UNCHANGED << args, packed, errorFlag, cfgVars, loop_count, fieldVars, send_buffer, itr,
                  checksum, u8_checksum, tv_end, looptime, slept, wire, writeErrors,
                  outVars, sig >>

\* lines 304-321: the callback of datatype i draws its fields, then
\* setSendDataFromROSBus((uint8_t)i, &send_buffer).
PackFrame(Vectors, Calibs, Commands) ==
  /\ pc = "for"
  /\ i < MAX_DATA_TYPE
  /\ \E v \in (IF i = 0 THEN Vectors ELSE {<< x_vector, y_vector, th_vector >>}),
        c \in (IF i = 1 THEN Calibs ELSE {calib_data}),
        k \in (IF i = 2 THEN Commands ELSE {command}) :
       /\ x_vector' = v[1]
       /\ y_vector' = v[2]
       /\ th_vector' = v[3]
       /\ calib_data' = c
       /\ command' = k
       /\ send_buffer' = setSendDataFromROSBus(U8(i), send_buffer, v[1], v[2], v[3], c, k)
       /\ packed' = setSendDataFromROSBus(U8(i), send_buffer, v[1], v[2], v[3], c, k)
  /\ pc' = "head"
  /\ UNCHANGED << args, errorFlag, cfgVars, loop_count, i, itr, checksum,
                  u8_checksum, timeVars, wire, writeErrors, outVars, histVars >>

\* lines 324-329: write the header, seed the checksum, itr=begin().
WriteHead ==
  /\ pc = "head"
  /\ wire' = Write(wire, HEAD_BYTE, "head", HEAD_BYTE)
  /\ writeErrors' = writeErrors + WriteFailed
  /\ checksum' = HEAD_BYTE
  /\ itr' = 1
  /\ pc' = "payload"
  /\ UNCHANGED << args, packed, errorFlag, cfgVars, loop_count, i, fieldVars, send_buffer,
                  u8_checksum, timeVars, outVars, histVars >>

\* EscapeTest without the masking of line 337.
EscapeTestNoMask ==
  /\ pc = "payload"
  /\ itr <= Len(send_buffer)
  /\ IF Collides(send_buffer[itr])
       THEN /\ wire' = Write(wire, ESCAPE_BYTE, "esc", ESCAPE_BYTE)
            /\ writeErrors' = writeErrors + WriteFailed
            /\ send_buffer' = send_buffer
       ELSE UNCHANGED << wire, writeErrors, send_buffer >>
  /\ pc' = "byte"
  /\ UNCHANGED << args, packed, errorFlag, cfgVars, loop_count, i, fieldVars, itr, checksum,
                  u8_checksum, timeVars, outVars, histVars >>

\* EscapeTest adding the escape byte to the checksum.
EscapeTestSummed ==
  /\ pc = "payload"
  /\ itr <= Len(send_buffer)
  /\ IF Collides(send_buffer[itr])
       THEN /\ wire' = Write(wire, ESCAPE_BYTE, "esc", ESCAPE_BYTE)
            /\ writeErrors' = writeErrors + WriteFailed
            /\ send_buffer' = [send_buffer EXCEPT ![itr] = BitXor(@, ESCAPE_MASK)]
            /\ checksum' = checksum + ESCAPE_BYTE
       ELSE UNCHANGED << wire, writeErrors, send_buffer, checksum >>
  /\ pc' = "byte"
  /\ UNCHANGED << args, packed, errorFlag, cfgVars, loop_count, i, fieldVars, itr,
                  u8_checksum, timeVars, outVars, histVars >>

\* lines 329-338: itr != end(); a colliding byte gets the escape byte
\* written before it and is masked in place.
EscapeTest ==
  /\ pc = "payload"
  /\ itr <= Len(send_buffer)
  /\ IF Collides(send_buffer[itr])
       THEN /\ wire' = Write(wire, ESCAPE_BYTE, "esc", ESCAPE_BYTE)
            /\ writeErrors' = writeErrors + WriteFailed
            /\ send_buffer' = [send_buffer EXCEPT ![itr] = BitXor(@, ESCAPE_MASK)]
       ELSE UNCHANGED << wire, writeErrors, send_buffer >>
  /\ pc' = "byte"
  /\ UNCHANGED << args, packed, errorFlag, cfgVars, loop_count, i, fieldVars, itr, checksum,
                  u8_checksum, timeVars, outVars, histVars >>

\* lines 340-343: write the byte, add it to the checksum, ++itr.
SendByte ==
  /\ pc = "byte"
  /\ wire' = Write(wire, send_buffer[itr], "data", packed[itr])
  /\ writeErrors' = writeErrors + WriteFailed
  /\ checksum' = checksum + send_buffer[itr]
  /\ itr' = itr + 1
  /\ pc' = "payload"
  /\ UNCHANGED << args, packed, errorFlag, cfgVars, loop_count, i, fieldVars, send_buffer,
                  u8_checksum, timeVars, outVars, histVars >>

\* ComputeChecksum without the escaping of lines 346-351.
ComputeChecksumNoEscape ==
  /\ pc = "payload"
  /\ itr > Len(send_buffer)
  /\ wire' = wire
  /\ writeErrors' = writeErrors
  /\ u8_checksum' = BitAnd(checksum, 255)
  /\ pc' = "sumbyte"
  /\ UNCHANGED << args, packed, errorFlag, cfgVars, loop_count, i, fieldVars, send_buffer,
                  itr, checksum, timeVars, outVars, histVars >>

\* lines 329, 345-351: itr == end(); the checksum is truncated, and
\* escaped when it collides.
ComputeChecksum ==
  /\ pc = "payload"
  /\ itr > Len(send_buffer)
  /\ IF Collides(BitAnd(checksum, 255))
       THEN /\ wire' = Write(wire, ESCAPE_BYTE, "esc", ESCAPE_BYTE)
            /\ writeErrors' = writeErrors + WriteFailed
            /\ u8_checksum' = BitXor(BitAnd(checksum, 255), ESCAPE_MASK)
       ELSE /\ wire' = wire
            /\ writeErrors' = writeErrors
            /\ u8_checksum' = BitAnd(checksum, 255)
  /\ pc' = "sumbyte"
  /\ UNCHANGED << args, packed, errorFlag, cfgVars, loop_count, i, fieldVars, send_buffer,
                  itr, checksum, timeVars, outVars, histVars >>

\* WriteChecksum with the for loop left as soon as errorFlag is set.
WriteChecksumBreak ==
  /\ pc = "sumbyte"
  /\ wire' = Write(wire, u8_checksum, "sum", BitAnd(checksum, 255))
  /\ writeErrors' = writeErrors + WriteFailed
  /\ send_buffer' = << >>
  /\ i' = IF errorFlag # 0 THEN MAX_DATA_TYPE ELSE i + 1
  /\ pc' = "for"
  /\ UNCHANGED << args, packed, errorFlag, cfgVars, loop_count, fieldVars, itr, checksum,
                  u8_checksum, timeVars, outVars, histVars >>

\* WriteChecksum without the erase of line 355.
WriteChecksumNoErase ==
  /\ pc = "sumbyte"
  /\ wire' = Write(wire, u8_checksum, "sum", BitAnd(checksum, 255))
  /\ writeErrors' = writeErrors + WriteFailed
  /\ send_buffer' = send_buffer
  /\ i' = i + 1
  /\ pc' = "for"
  /\ UNCHANGED << args, packed, errorFlag, cfgVars, loop_count, fieldVars, itr, checksum,
                  u8_checksum, timeVars, outVars, histVars >>

\* lines 352-356: write the checksum byte, erase the buffer, i++.
WriteChecksum ==
  /\ pc = "sumbyte"
  /\ wire' = Write(wire, u8_checksum, "sum", BitAnd(checksum, 255))
  /\ writeErrors' = writeErrors + WriteFailed
  /\ send_buffer' = << >>
  /\ i' = i + 1
  /\ pc' = "for"
  /\ UNCHANGED << args, packed, errorFlag, cfgVars, loop_count, fieldVars, itr, checksum,
                  u8_checksum, timeVars, outVars, histVars >>

\* tv + d microseconds.
AddUsec(tv, d) ==
  << tv[1] + ((tv[2] + d) \div 1000000), (tv[2] + d) % 1000000 >>

\* lines 362-366: the usleep argument, -1 when usleep is not called.
SleepFor(lt, period) == IF lt < period THEN period - lt ELSE -1

\* lines 304, 359-366: the for loop ends; gettimeofday(&tv_end), looptime,
\* usleep.
EndTick(Elapsed) ==
  /\ pc = "for"
  /\ ~(i < MAX_DATA_TYPE)
  /\ \E d \in Elapsed :
       /\ tv_end' = AddUsec(tv_start, d)
       /\ looptime' = AddUsec(tv_start, d)[2] - tv_start[2]
       /\ slept' = SleepFor(AddUsec(tv_start, d)[2] - tv_start[2], microsecond)
  /\ pc' = "count"
  /\ UNCHANGED << args, packed, errorFlag, cfgVars, loop_count, i, fieldVars, send_buffer,
                  itr, checksum, u8_checksum, tv_start, wire, writeErrors, outVars,
                  histVars >>

\* BoundReached with > for >=.
BoundReachedStrict(enable, count, len) == enable /\ count > len

\* line 368: the loop is left when the bound is reached.
BoundReached(enable, count, len) == enable /\ count >= len

\* lines 367-373: loop_count++, break at the bound.
Count ==
  /\ pc = "count"
  /\ loop_count' = loop_count + 1
  /\ reachedMax' = BoundReached(loop_count_enable, loop_count + 1, loop_length)
  /\ pc' = IF BoundReached(loop_count_enable, loop_count + 1, loop_length)
             THEN "report" ELSE "while"
  /\ UNCHANGED << args, packed, errorFlag, cfgVars, i, fieldVars, send_buffer, itr,
                  checksum, u8_checksum, timeVars, wire, writeErrors, diag, exitStatus,
                  histVars >>

\* EarlyStop with <= for <.
EarlyStopInclusive(count, len) == count <= len

\* line 376: the condition of the diagnostic.
EarlyStop(count, len) == count < len

\* lines 376-380: the diagnostic, return 0.
Report ==
  /\ pc = "report"
  /\ diag' = EarlyStop(loop_count, loop_length)
  /\ exitStatus' = 0
  /\ pc' = "done"
  /\ UNCHANGED << args, packed, errorFlag, cfgVars, loop_count, i, fieldVars, send_buffer,
                  itr, checksum, u8_checksum, timeVars, wire, writeErrors, reachedMax,
                  histVars >>

(***************************************************************************)
(* Inputs of the scheduler specification: the command lines                *)
(* "prog" (no tick bound) and "prog 120 n", the device opened, and a few   *)
(* field values that make payload bytes and checksums collide with the     *)
(* header and escape values.                                               *)
(***************************************************************************)
SchedArgs ==
  {[argc |-> 1, rate |-> 0, count |-> 0]}
    \cup {[argc |-> 3, rate |-> 120, count |-> n] : n \in 1..MaxTicks}

OpenFds == {3}

\* <<0,0,0>>: checksum 0x7D.  <<4095,0,0>>: nothing escaped.
\* <<62,3055,2174>>: b1 = 0x7D, b2 = 0x7D, b4 = 0x7E and checksum 0x7D.
SchedVectors == {<< 0, 0, 0 >>, << 4095, 0, 0 >>, << 62, 3055, 2174 >>}

\* 381: b1 = 0x7D.  224: checksum 0x7D.
SchedCalibs == {381, 224}

SchedCommands == {0, 31}

SchedStarts == {<< 0, 0 >>}

SchedElapsed == {1000}

Main ==
  \/ Setup(SchedArgs, OpenFds)
  \/ LoopTest
  \/ TickStart(SchedStarts)
  \/ PackFrame(SchedVectors, SchedCalibs, SchedCommands)
  \/ WriteHead
  \/ EscapeTest
  \/ SendByte
  \/ ComputeChecksum
  \/ WriteChecksum
  \/ EndTick(SchedElapsed)
  \/ Count
  \/ Report

Next == Main \/ signalHandler

Spec == Init /\ [][Next]_vars

\* Every write and every sleep returns: main() keeps taking steps.
LiveSpec == Spec /\ WF_vars(Main)

(***************************************************************************)
(* Inputs of the frame specification: one tick ("prog 120 1") over a wider *)
(* choice of field values, without signals.                                *)
(***************************************************************************)
FrameArgs == {[argc |-> 3, rate |-> 120, count |-> 1]}

FrameVectors ==
  ({0, 62, 63, 4095} \X {0, 1000, 2048, 4095} \X {0, 125, 126, 4095})
    \cup {<< 62, 3055, 2174 >>}

FrameCalibs ==
  {hi * 256 + lo : hi \in {0, 1, 31}, lo \in {0, 125, 126, 193, 224, 225, 255}}

FrameCommands == 0..31

FrameNext ==
  \/ Setup(FrameArgs, OpenFds)
  \/ LoopTest
  \/ TickStart(SchedStarts)
  \/ PackFrame(FrameVectors, FrameCalibs, FrameCommands)
  \/ WriteHead
  \/ EscapeTest
  \/ SendByte
  \/ ComputeChecksum
  \/ WriteChecksum
  \/ EndTick(SchedElapsed)
  \/ Count
  \/ Report

FrameSpec == Init /\ [][FrameNext]_vars

(***************************************************************************)
(* A reader of the wire: frames are cut at the header value, escape bytes  *)
(* are dropped and the byte after each is XORed with the mask, and the     *)
(* packing formulas are inverted.                                          *)
(***************************************************************************)
WireBytes == [n \in 1..Len(wire) |-> wire[n].b]

\* The last write completed a frame.
FrameComplete == Len(wire) > 0 /\ wire[Len(wire)].k = "sum"

LastHeadPos(bs) ==
  CHOOSE n \in 1..Len(bs) :
    bs[n] = HEAD_BYTE /\ \A m \in (n + 1)..Len(bs) : bs[m] # HEAD_BYTE

\* The bytes after the last header.
LastFrameBody == SubSeq(WireBytes, LastHeadPos(WireBytes) + 1, Len(wire))

RECURSIVE Destuff(_)
Destuff(bs) ==
  IF bs = << >> THEN << >>
  ELSE IF bs[1] = ESCAPE_BYTE /\ Len(bs) >= 2
    THEN << BitXor(bs[2], ESCAPE_MASK) >> \o Destuff(SubSeq(bs, 3, Len(bs)))
  ELSE << bs[1] >> \o Destuff(Tail(bs))

\* The bytes as transmitted, without the escape bytes.
RECURSIVE DropEscapes(_)
DropEscapes(bs) ==
  IF bs = << >> THEN << >>
  ELSE IF bs[1] = ESCAPE_BYTE /\ Len(bs) >= 2
    THEN << bs[2] >> \o DropEscapes(SubSeq(bs, 3, Len(bs)))
  ELSE << bs[1] >> \o DropEscapes(Tail(bs))

RECURSIVE SeqSum(_)
SeqSum(q) == IF q = << >> THEN 0 ELSE q[1] + SeqSum(Tail(q))

AllButLast(q) == SubSeq(q, 1, Len(q) - 1)

\* Inverse of the packing formulas on a de-stuffed payload.
Unpack(p) ==
  LET tag == Shr(p[1], 5) IN
  CASE tag = 0 /\ Len(p) = 5 ->
         [datatype |-> 0,
          fields |-> << BitOr(Shl(BitAnd(p[1], 31), 7), Shr(p[2], 1)),
                        BitOr(BitOr(Shl(BitAnd(p[2], 1), 11), Shl(p[3], 3)), Shr(p[4], 5)),
                        BitOr(Shl(BitAnd(p[4], 15), 8), p[5]) >>]
    [] tag = 1 /\ Len(p) = 2 ->
         [datatype |-> 1, fields |-> << BitOr(Shl(BitAnd(p[1], 31), 8), p[2]) >>]
    [] tag = 2 /\ Len(p) = 1 ->
         [datatype |-> 2, fields |-> << BitAnd(p[1], 31) >>]
    [] OTHER -> [datatype |-> -1, fields |-> << >>]

\* The datatype and field values of the frame just sent (i counts it already).
SentValues ==
  [datatype |-> i - 1,
   fields |-> CASE i = 1 -> << x_vector, y_vector, th_vector >>
                [] i = 2 -> << calib_data >>
                [] i = 3 -> << command >>
                [] OTHER -> << >>]

\* Some payload byte of the last frame was escaped.
LastFrameEscapedPayload ==
  \E n \in (LastHeadPos(WireBytes) + 1)..Len(wire) :
    wire[n].k = "data" /\ Collides(wire[n].o)

(***************************************************************************)
(* C1: on the wire the value 0x7D is the first byte of a frame and nothing *)
(* else: every header write carries 0x7D, a header is the first byte of    *)
(* the stream or follows a checksum byte, and no escape, payload or        *)
(* checksum write carries 0x7D.                                            *)
(***************************************************************************)
HeaderOnlyDelimiter ==
  \A n \in 1..Len(wire) :
    /\ (wire[n].k = "head") <=> (wire[n].b = HEAD_BYTE)
    /\ wire[n].k = "head" => (n = 1 \/ wire[n - 1].k = "sum")

\* A payload byte and a checksum that were 0x7D before escaping are on the wire.
HeaderOnlyDelimiterWitness ==
  /\ \E n \in 1..Len(wire) : wire[n].k = "data" /\ wire[n].o = HEAD_BYTE
  /\ \E n \in 1..Len(wire) : wire[n].k = "sum" /\ wire[n].o = HEAD_BYTE

(***************************************************************************)
(* C2: when a frame is complete, its de-escaped last byte equals           *)
(* (0x7D + the sum of the transmitted payload bytes, escape bytes left     *)
(* out) mod 256, whatever the frames before it were.                       *)
(***************************************************************************)
ChecksumValid ==
  FrameComplete =>
    LET sent == DropEscapes(LastFrameBody)
        plain == Destuff(LastFrameBody)
    IN  /\ Len(plain) = Len(sent)
        /\ plain[Len(plain)] = (HEAD_BYTE + SeqSum(AllButLast(sent))) % 256

\* A frame with an escaped payload byte that follows a frame with an escaped
\* checksum.
ChecksumValidWitness ==
  /\ FrameComplete
  /\ LastHeadPos(WireBytes) > 1
  /\ LastFrameEscapedPayload
  /\ \E n \in 1..LastHeadPos(WireBytes) : wire[n].k = "sum" /\ Collides(wire[n].o)

(***************************************************************************)
(* C3: de-stuffing the frame just sent and inverting the packing formulas  *)
(* gives back the datatype and the field values it was packed from.        *)
(***************************************************************************)
RoundTrip ==
  (FrameComplete /\ pc = "for") =>
    Unpack(AllButLast(Destuff(LastFrameBody))) = SentValues

\* A velocity frame with escaped payload bytes and an escaped checksum.
RoundTripWitness ==
  /\ FrameComplete
  /\ pc = "for"
  /\ i = 1
  /\ LastFrameEscapedPayload
  /\ Collides(wire[Len(wire)].o)
  /\ x_vector > 0 /\ y_vector > 0 /\ th_vector > 0

(***************************************************************************)
(* C4, as stated: every byte of the wire that is 0x7D or 0x7E and is not   *)
(* a header follows an escape byte and is its original value XOR 0x20.     *)
(***************************************************************************)
EscapingSafetyAsStated ==
  \A n \in 1..Len(wire) :
    (Collides(wire[n].b) /\ wire[n].k # "head") =>
      /\ n > 1
      /\ wire[n - 1].k = "esc"
      /\ wire[n - 1].b = ESCAPE_BYTE
      /\ wire[n].b = BitXor(wire[n].o, ESCAPE_MASK)

(***************************************************************************)
(* C4, amended: every payload or checksum byte whose value before escaping *)
(* is 0x7D or 0x7E is on the wire as that value XOR 0x20, right after an   *)
(* escape byte 0x7E; every other payload or checksum byte is on the wire   *)
(* unchanged, not after an escape byte; no payload or checksum byte on the *)
(* wire is 0x7D or 0x7E, and every escape byte is 0x7E.                    *)
(***************************************************************************)
EscapingSafety ==
  \A n \in 1..Len(wire) :
    /\ wire[n].k \in {"data", "sum"} =>
         /\ ~Collides(wire[n].b)
         /\ IF Collides(wire[n].o)
              THEN /\ n > 1
                   /\ wire[n - 1].k = "esc"
                   /\ wire[n].b = BitXor(wire[n].o, ESCAPE_MASK)
              ELSE /\ wire[n].b = wire[n].o
                   /\ n > 1
                   /\ wire[n - 1].k # "esc"
    /\ wire[n].k = "esc" => wire[n].b = ESCAPE_BYTE

\* Payload bytes 0x7D and 0x7E and a checksum 0x7D have been escaped.
EscapingSafetyWitness ==
  /\ \E n \in 1..Len(wire) : wire[n].k = "data" /\ wire[n].o = HEAD_BYTE
  /\ \E n \in 1..Len(wire) : wire[n].k = "data" /\ wire[n].o = ESCAPE_BYTE
  /\ \E n \in 1..Len(wire) : wire[n].k = "sum" /\ Collides(wire[n].o)
  /\ FrameComplete

(***************************************************************************)
(* C5: the packed payload is the datatype tag and the fields laid end to   *)
(* end, most significant bit first, with the unused bits at the end of the *)
(* last byte.                                                              *)
(***************************************************************************)
\* The low n bits of v, most significant first.
RECURSIVE Bits(_, _)
Bits(v, n) == IF n = 0 THEN << >> ELSE Append(Bits(v \div 2, n - 1), v % 2)

\* The value of a sequence of bits, most significant first.
RECURSIVE BitsValue(_)
BitsValue(q) ==
  IF q = << >> THEN 0 ELSE 2 * BitsValue(AllButLast(q)) + q[Len(q)]

\* A sequence of bits cut into bytes, the last one filled up with zero bits.
RECURSIVE BitsToBytes(_)
BitsToBytes(q) ==
  IF q = << >> THEN << >>
  ELSE IF Len(q) < 8 THEN BitsToBytes(Append(q, 0))
  ELSE << BitsValue(SubSeq(q, 1, 8)) >> \o BitsToBytes(SubSeq(q, 9, Len(q)))

Contiguous(dt, x, y, th, calib, cmd) ==
  CASE dt = 0 -> BitsToBytes(Bits(dt, 3) \o Bits(x, 12) \o Bits(y, 12) \o Bits(th, 12))
    [] dt = 1 -> BitsToBytes(Bits(dt, 3) \o Bits(calib, 13))
    [] dt = 2 -> BitsToBytes(Bits(dt, 3) \o Bits(cmd, 5))
    [] OTHER -> << >>

ContiguousPacking ==
  pc = "head" =>
    send_buffer = Contiguous(i, x_vector, y_vector, th_vector, calib_data, command)

(***************************************************************************)
(* The shape of the stream: the writes of one tick, escape bytes left out. *)
(***************************************************************************)
\* Number of bytes setSendDataFromROSBus pushes for a datatype.
PayloadLen(dt) == Len(setSendDataFromROSBus(dt, << >>, 0, 0, 0, 0, 0))

FrameKinds(dt) == << "head" >> \o [n \in 1..PayloadLen(dt) |-> "data"] \o << "sum" >>

TickKinds == FrameKinds(0) \o FrameKinds(1) \o FrameKinds(2)

NotEscape(r) == r.k # "esc"

\* w is n complete ticks: three complete frames each, every escape byte
\* followed by the byte it escapes.
CompleteTicks(w, n) ==
  LET ks == SelectSeq(w, NotEscape) IN
  /\ Len(ks) = n * Len(TickKinds)
  /\ \A m \in 1..Len(ks) : ks[m].k = TickKinds[((m - 1) % Len(TickKinds)) + 1]
  /\ \A m \in 1..Len(w) :
       w[m].k = "esc" => (m < Len(w) /\ w[m + 1].k \in {"data", "sum"})

HeadPositions == {n \in 1..Len(wire) : wire[n].b = HEAD_BYTE}

\* Number of frames begun before position n.
FrameIndex(n) == Cardinality({m \in HeadPositions : m < n})

\* The first payload byte of the frame whose header is at n is on the wire.
HasFirstPayload(n) ==
  /\ n + 1 <= Len(wire)
  /\ wire[n + 1].b = ESCAPE_BYTE => n + 2 <= Len(wire)

FirstPayload(n) ==
  IF wire[n + 1].b = ESCAPE_BYTE
    THEN BitXor(wire[n + 2].b, ESCAPE_MASK)
    ELSE wire[n + 1].b

\* Ticks whose for loop has ended.
TicksSent == IF pc = "count" THEN loop_count + 1 ELSE loop_count

(***************************************************************************)
(* C6: whenever the loop has been left, whatever the moment errorFlag was  *)
(* set, the wire holds loop_count complete ticks of three complete frames. *)
(***************************************************************************)
CancelBetweenTicks == Stopped => CompleteTicks(wire, loop_count)

\* The flag was set between two byte writes of a frame, and the run ended
\* on it after at least one tick.
CancelBetweenTicksWitness ==
  /\ pc = "done"
  /\ errorFlag = 1
  /\ sig.midFrame
  /\ ~reachedMax
  /\ loop_count >= 1

(***************************************************************************)
(* C7: the datatype tags of the frames on the wire follow 0, 1, 2, 0, 1,   *)
(* 2, ..., and between ticks the wire holds three frames per tick.         *)
(***************************************************************************)
FixedOrder ==
  /\ \A n \in HeadPositions :
       HasFirstPayload(n) => Shr(FirstPayload(n), 5) = FrameIndex(n) % MAX_DATA_TYPE
  /\ pc \in {"while", "tick", "count", "report", "done"} =>
       Cardinality(HeadPositions) = MAX_DATA_TYPE * TicksSent

\* Two ticks have been sent.
FixedOrderWitness ==
  /\ pc = "while"
  /\ loop_count = 2
  /\ Cardinality(HeadPositions) = 6

(***************************************************************************)
(* C8: with a tick bound, loop_count never exceeds loop_length; a run      *)
(* that leaves the loop with errorFlag clear has made exactly loop_length  *)
(* ticks (3 * loop_length frames), and returns without the diagnostic.     *)
(***************************************************************************)
BoundedCount ==
  loop_count_enable =>
    /\ loop_length > 0
    /\ loop_count <= loop_length
    /\ (Stopped /\ errorFlag = 0) =>
         /\ loop_count = loop_length
         /\ reachedMax
         /\ Cardinality(HeadPositions) = 3 * loop_length
         /\ ~diag

\* A run bounded to two ticks has returned, never cancelled.
BoundedCountWitness ==
  /\ loop_count_enable
  /\ loop_length = 2
  /\ pc = "done"
  /\ errorFlag = 0
  /\ sig = NoSig

(***************************************************************************)
(* C9: under LiveSpec (every write and sleep returns), once errorFlag is   *)
(* set the loop is eventually left; at most one tick begins after the flag *)
(* is set; and once the loop is left, main never re-enters it and writes   *)
(* no further byte.                                                        *)
(***************************************************************************)
CancelLive ==
  /\ (errorFlag # 0) ~> Stopped
  /\ [](begunAfter <= 1)
  /\ [][Stopped => (Stopped' /\ wire' = wire)]_vars

\* The flag was set after the while test had passed: one tick began after
\* it, and the run ended on it.
CancelLiveWitness ==
  /\ pc = "done"
  /\ errorFlag = 1
  /\ begunAfter = 1
  /\ ~reachedMax

(***************************************************************************)
(* C10, as stated: with a tick bound, a signal delivered while the loop    *)
(* runs ends the run with loop_count < loop_length, the diagnostic and     *)
(* exit status 0.                                                          *)
(***************************************************************************)
CancelStopsEarlyAsStated ==
  (pc = "done" /\ loop_count_enable /\ sig.passed >= 0) =>
    /\ loop_count < loop_length
    /\ diag
    /\ exitStatus = 0

(***************************************************************************)
(* C10, amended: with a tick bound, a signal first delivered while the     *)
(* loop runs ends the run at the end of the tick in progress (or at once,  *)
(* between ticks) with exit status 0; when that tick is not the last one   *)
(* of the bound the run ends with loop_count < loop_length and the         *)
(* diagnostic, and when it is the last one the run ends by the bound with  *)
(* loop_count = loop_length and no diagnostic.                             *)
(***************************************************************************)
CancelStopsEarly ==
  (pc = "done" /\ loop_count_enable /\ sig.passed >= 0) =>
    /\ exitStatus = 0
    /\ loop_count = sig.passed
    /\ IF sig.passed < loop_length
         THEN loop_count < loop_length /\ diag /\ ~reachedMax
         ELSE loop_count = loop_length /\ ~diag /\ reachedMax

\* A run bounded to two ticks, cancelled between two byte writes of the
\* first tick.
CancelStopsEarlyWitness ==
  /\ pc = "done"
  /\ loop_count_enable
  /\ loop_length = 2
  /\ sig.passed = 1
  /\ sig.midFrame
  /\ diag

(***************************************************************************)
(* C11: without a tick bound (no count argument, or one <= 0) the          *)
(* diagnostic of line 378 is never printed.                                *)
(***************************************************************************)
NoDiagUnbounded == ~loop_count_enable => ~diag

(***************************************************************************)
(* The scheduler specification with a device that may fail to open: open() *)
(* returns -1 and every write(fd, ., 1) fails.                             *)
(***************************************************************************)
FailFds == {-1, 3}

FailNext ==
  \/ Setup(SchedArgs, FailFds)
  \/ LoopTest
  \/ TickStart(SchedStarts)
  \/ PackFrame(SchedVectors, SchedCalibs, SchedCommands)
  \/ WriteHead
  \/ EscapeTest
  \/ SendByte
  \/ ComputeChecksum
  \/ WriteChecksum
  \/ EndTick(SchedElapsed)
  \/ Count
  \/ Report
  \/ signalHandler

FailSpec == Init /\ [][FailNext]_vars

(***************************************************************************)
(* C12: a failed write ends the run: no write is attempted after it (on a  *)
(* device that is not open every attempt fails, so at most one write ever  *)
(* fails), and the run that returns after it reports it, by its exit       *)
(* status or on the error stream.                                          *)
(***************************************************************************)
WriteFailureFatal ==
  /\ writeErrors <= 1
  /\ (pc = "done" /\ writeErrors > 0) => (exitStatus # 0 \/ diag)

(***************************************************************************)
(* The packer alone: setSendDataFromROSBus called once on an empty buffer  *)
(* with any 3-bit datatype value and field values of the scheduler's       *)
(* choice.                                                                 *)
(***************************************************************************)
PackDatatypes == 0..7

PackInit ==
  /\ pc = "call"
  /\ i \in PackDatatypes
  /\ \E v \in SchedVectors :
       /\ x_vector = v[1]
       /\ y_vector = v[2]
       /\ th_vector = v[3]
  /\ calib_data \in SchedCalibs
  /\ command \in SchedCommands
  /\ errorFlag = 0
  /\ loop_length = 0
  /\ loop_count = 0
  /\ loop_count_enable = FALSE
  /\ hz = 0
  /\ microsecond = 0
  /\ fd = -1
  /\ send_buffer = << >>
  /\ itr = 1
  /\ checksum = 0
  /\ u8_checksum = 0
  /\ tv_start = << 0, 0 >>
  /\ tv_end = << 0, 0 >>
  /\ looptime = 0
  /\ slept = -1
  /\ wire = << >>
  /\ reachedMax = FALSE
  /\ diag = FALSE
  /\ exitStatus = -1
  /\ args = NoArgs
  /\ writeErrors = 0
  /\ packed = << >>
  /\ sig = NoSig
  /\ begunAfter = 0

\* The call returns to its caller with the buffer it built; the function is
\* void and has no other way out.
PackCall ==
  /\ pc = "call"
  /\ send_buffer' = setSendDataFromROSBus(i, send_buffer, x_vector, y_vector,
                                          th_vector, calib_data, command)
  /\ packed' = setSendDataFromROSBus(i, send_buffer, x_vector, y_vector,
                                     th_vector, calib_data, command)
  /\ pc' = "returned"
  /\ UNCHANGED << args, errorFlag, cfgVars, loop_count, i, fieldVars, itr,
                  checksum, u8_checksum, timeVars, wire, writeErrors, outVars,
                  histVars >>

PackNext == PackCall

PackSpec == PackInit /\ [][PackNext]_vars

(***************************************************************************)
(* C13: a call of the packer with a datatype outside {0,1,2} does not      *)
(* return normally to its caller (it fails instead of handing back an      *)
(* empty payload).                                                         *)
(***************************************************************************)
PackRejectsInvalid == pc = "returned" => i \in {0, 1, 2}

(***************************************************************************)
(* The timing of one tick: clock readings around a second boundary and     *)
(* ticks shorter and longer than the period and than one second.           *)
(***************************************************************************)
ClockArgs ==
  {[argc |-> 3, rate |-> 120, count |-> 1], [argc |-> 3, rate |-> 1000, count |-> 1]}

ClockStarts == {<< 0, 0 >>, << 0, 999000 >>, << 5, 500000 >>}

ClockElapsed == {0, 500, 1000, 2000, 8333, 9000, 1000500}

ClockNext ==
  \/ Setup(ClockArgs, OpenFds)
  \/ LoopTest
  \/ TickStart(ClockStarts)
  \/ PackFrame(SchedVectors, SchedCalibs, SchedCommands)
  \/ WriteHead
  \/ EscapeTest
  \/ SendByte
  \/ ComputeChecksum
  \/ WriteChecksum
  \/ EndTick(ClockElapsed)
  \/ Count
  \/ Report

ClockSpec == Init /\ [][ClockNext]_vars

\* Microseconds from tv_start to tv_end, seconds included.
FullElapsed == (tv_end[1] - tv_start[1]) * 1000000 + (tv_end[2] - tv_start[2])

(***************************************************************************)
(* C14: after the timing step of a tick, usleep was called with            *)
(* microsecond - elapsed when the full elapsed time is below the period    *)
(* and was not called otherwise; it never sleeps longer than the period.   *)
(***************************************************************************)
RateLimit ==
  pc = "count" =>
    /\ slept = (IF FullElapsed < microsecond THEN microsecond - FullElapsed ELSE -1)
    /\ slept <= microsecond

(***************************************************************************)
(* The command line alone: setParameterFromCommandLine on argc = 1, 2, 3   *)
(* and rate and count values around the limits.                            *)
(***************************************************************************)
ConfigRates == {-5, -1, 0, 1, 60, 120, 1000, 99999, 100000, 100001}

ConfigCounts == {-7, -1, 0, 1, 2, 3, 100, 120, 121, 5000}

ConfigArgs ==
  {[argc |-> 1, rate |-> 0, count |-> 0]}
    \cup {[argc |-> 2, rate |-> r, count |-> 0] : r \in ConfigRates}
    \cup {[argc |-> 3, rate |-> r, count |-> n] : r \in ConfigRates, n \in ConfigCounts}

ConfigNext == Setup(ConfigArgs, OpenFds)

ConfigSpec == Init /\ [][ConfigNext]_vars

(***************************************************************************)
(* C15: after the command line is read, hz is the rate argument when it is *)
(* present and 0 < r < 100000 and 120 otherwise, and the tick bound is on, *)
(* with loop_length = n, exactly when the count argument is present and    *)
(* n > 0.                                                                  *)
(***************************************************************************)
ConfigFallback ==
  pc # "start" =>
    /\ hz = (IF args.argc >= 2 /\ 0 < args.rate /\ args.rate < 100000
               THEN args.rate ELSE 120)
    /\ loop_count_enable = (args.argc >= 3 /\ args.count > 0)
    /\ loop_count_enable => loop_length = args.count

\* The rate 100000 fell back to 120 and the count 0 selected no bound.
ConfigFallbackWitness ==
  /\ pc = "while"
  /\ args.argc = 3
  /\ args.rate = 100000
  /\ args.count = 0
  /\ hz = 120
  /\ ~loop_count_enable

(***************************************************************************)
(* Measures of the frame just sent (between WriteChecksum and the next     *)
(* step of the for loop).                                                  *)
(***************************************************************************)
FrameSent == FrameComplete /\ pc = "for" /\ i \in 1..MAX_DATA_TYPE

\* Bytes of the last frame on the wire, header included.
LastFrameWireLen == Len(LastFrameBody) + 1

\* Payload and checksum bytes of the last frame that were 0x7D or 0x7E
\* before escaping.
LastFrameEscaped ==
  Cardinality({n \in (LastHeadPos(WireBytes) + 1)..Len(wire) :
                 wire[n].k \in {"data", "sum"} /\ Collides(wire[n].o)})

(***************************************************************************)
(* C16: a frame on the wire has, escape bytes left out, 7, 4 or 3 bytes    *)
(* for datatype 0, 1 or 2, and while a frame is encoded, in every tick,    *)
(* the buffer was packed from empty: it holds the 5, 2 or 1 bytes of the   *)
(* current datatype only.                                                  *)
(***************************************************************************)
LogicalLength ==
  /\ FrameSent => Len(DropEscapes(LastFrameBody)) + 1 = << 7, 4, 3 >>[i]
  /\ pc \in {"head", "payload", "byte", "sumbyte"} =>
       /\ Len(send_buffer) = << 5, 2, 1 >>[i + 1]
       /\ packed = setSendDataFromROSBus(i, << >>, x_vector, y_vector, th_vector,
                                         calib_data, command)

\* The second frame of the second tick, with an escaped payload byte.
LogicalLengthWitness ==
  /\ FrameSent
  /\ i = 2
  /\ loop_count = 1
  /\ LastFrameEscapedPayload

(***************************************************************************)
(* C17, as stated: a frame takes between 1 and payload length + 2 writes.  *)
(***************************************************************************)
WriteCountAsStated ==
  FrameSent =>
    /\ 1 <= LastFrameWireLen
    /\ LastFrameWireLen <= PayloadLen(i - 1) + 2

(***************************************************************************)
(* C17, amended: a frame takes payload length + 2 writes plus one for each *)
(* payload or checksum byte that is 0x7D or 0x7E before escaping, hence    *)
(* between payload length + 2 and 2 * payload length + 3 writes.           *)
(***************************************************************************)
WriteCount ==
  FrameSent =>
    /\ LastFrameWireLen = PayloadLen(i - 1) + 2 + LastFrameEscaped
    /\ PayloadLen(i - 1) + 2 <= LastFrameWireLen
    /\ LastFrameWireLen <= 2 * PayloadLen(i - 1) + 3

\* A calibration frame of five writes: one more than payload length + 2.
WriteCountWitness ==
  /\ FrameSent
  /\ i = 2
  /\ LastFrameWireLen = 5
  /\ LastFrameEscaped = 1

(***************************************************************************)
(* C18, as stated: x=4095, y=0, th=0 packs to 1F 02 00 00 00 and the frame *)
(* has no escape byte.                                                     *)
(***************************************************************************)
AtBoundary == x_vector = 4095 /\ y_vector = 0 /\ th_vector = 0

BoundaryScenarioAsStated ==
  /\ (pc = "head" /\ i = 0 /\ AtBoundary) => send_buffer = << 31, 2, 0, 0, 0 >>
  /\ (FrameSent /\ i = 1 /\ AtBoundary) => LastFrameWireLen = 7

(***************************************************************************)
(* C18, amended: x=4095, y=0, th=0 packs to 1F FE 00 00 00 and the frame   *)
(* has no escape byte.                                                     *)
(***************************************************************************)
BoundaryScenario ==
  /\ (pc = "head" /\ i = 0 /\ AtBoundary) => send_buffer = << 31, 254, 0, 0, 0 >>
  /\ (FrameSent /\ i = 1 /\ AtBoundary) =>
       /\ LastFrameWireLen = 7
       /\ \A n \in 1..Len(wire) : wire[n].k # "esc"

\* The frame of the boundary values has been sent.
BoundaryScenarioWitness ==
  /\ FrameSent
  /\ i = 1
  /\ AtBoundary
  /\ Len(wire) = 7

(***************************************************************************)
(* C19: a step that changes errorFlag sets it to 1 and changes no other    *)
(* variable of the program (counter, fields, buffer, checksum, wire, ...); *)
(* once 1, errorFlag stays 1.                                              *)
(***************************************************************************)
HandlerOnlySetsFlag ==
  /\ [][(errorFlag' # errorFlag) =>
          /\ errorFlag' = 1
          /\ UNCHANGED << pc, cfgVars, loop_count, i, fieldVars, send_buffer,
                          itr, checksum, u8_checksum, timeVars, wire, outVars,
                          args, writeErrors, packed >>]_vars
  /\ [][errorFlag = 1 => errorFlag' = 1]_vars

\* The handler ran between the escape byte and the byte it escapes, in the
\* second tick.
HandlerOnlySetsFlagWitness ==
  /\ errorFlag = 1
  /\ pc = "byte"
  /\ sig.midFrame
  /\ sig.passed = 2
  /\ Len(wire) > 0
  /\ wire[Len(wire)].k = "esc"

====
